---- MODULE Spec2Model ----
(***************************************************************************)
(* Model of the llm-conv-summarize application: the conversation page of   *)
(* app.py driving the turn-taking engine, and the three extraction         *)
(* pipelines (ConversationAnalyzer, ConversationSummarizer,                *)
(* UserProfileExtractor) with their primary/fallback model calls.          *)
(*                                                                         *)
(* Text is modelled as a sequence of lines, a line as a sequence of        *)
(* tokens; a token is an atomic piece of text ("profile:", "- ", "{").     *)
(* A Python value that may be a str or None is the record                  *)
(* [t |-> "str" | "none", v |-> lines].                                    *)
(***************************************************************************)
EXTENDS Integers, Sequences, FiniteSets, TLC

(* ---------------------------- bounds ----------------------------------- *)

\* longest transcript handed to a pipeline
MaxConvLen == 2

\* largest value of the wall clock (datetime.now())
MaxClock == 2

\* largest num_turns chosen on the conversation page (the slider allows 1..20)
MaxTurns == 2

\* most chunks the streaming callback receives for one generation
MaxChunks == 1

\* most runs that are followed by another run
MaxRuns == 1

\* most lines of a text handed to the profile line parser
MaxLines == 3

(* ------------------------ Python values -------------------------------- *)

PyNone == [t |-> "none", v |-> <<>>]

PyStr(lines) == [t |-> "str", v |-> lines]

PyDict(f) == [t |-> "dict", v |-> f]

PyList(s) == [t |-> "list", v |-> s]

\* the empty mapping {} (a function with empty domain)
EmptyMap == [k \in {} |-> 0]

\* the mapping {key: value}
Singleton(key, value) == [k \in {key} |-> value]

\* d1 | d2, keys of d2 win
Merge(d1, d2) == [k \in (DOMAIN d1) \cup (DOMAIN d2) |-> IF k \in DOMAIN d2 THEN d2[k] ELSE d1[k]]

(* --------------------------- text helpers ------------------------------ *)

Whitespace == {" "}

RECURSIVE LStrip(_)
LStrip(line) == IF line # <<>> /\ Head(line) \in Whitespace THEN LStrip(Tail(line)) ELSE line

RECURSIVE RStrip(_)
RStrip(line) ==
    IF line # <<>> /\ line[Len(line)] \in Whitespace
    THEN RStrip(SubSeq(line, 1, Len(line) - 1))
    ELSE line

\* str.strip() on one line
Strip(line) == LStrip(RStrip(line))

\* line.startswith(tok)
StartsWith(line, tok) == line # <<>> /\ Head(line) = tok

\* line.replace(tok, '')
Replace(line, tok) == SelectSeq(line, LAMBDA t : t # tok)

\* all tokens of a text, in order
RECURSIVE Flatten(_)
Flatten(lines) == IF lines = <<>> THEN <<>> ELSE Head(lines) \o Flatten(Tail(lines))

(* ------------------------------ json ----------------------------------- *)

\* JSON string literals of the model's alphabet and the Python str each decodes to
JsonStrings == ("\"title\"" :> "title") @@ ("\"v\"" :> "v")

\* json.loads(text): [ok |-> TRUE, value |-> the decoded value], or ok = FALSE
\* when it raises (TypeError on None, JSONDecodeError on anything else that is
\* not a JSON document of the alphabet).
JsonLoads(pv) ==
    LET toks == SelectSeq(Flatten(pv.v), LAMBDA t : t \notin Whitespace) IN
    IF pv.t # "str" THEN [ok |-> FALSE, value |-> PyNone]
    ELSE IF toks = <<"{", "}">> THEN [ok |-> TRUE, value |-> PyDict(EmptyMap)]
    ELSE IF toks = <<"[", "]">> THEN [ok |-> TRUE, value |-> PyList(<<>>)]
    ELSE IF /\ Len(toks) = 5
            /\ toks[1] = "{" /\ toks[3] = ":" /\ toks[5] = "}"
            /\ toks[2] \in DOMAIN JsonStrings /\ toks[4] \in DOMAIN JsonStrings
         THEN [ok |-> TRUE, value |-> PyDict(Singleton(JsonStrings[toks[2]], JsonStrings[toks[4]]))]
    ELSE [ok |-> FALSE, value |-> PyNone]

\* json.dumps(value, ensure_ascii=False, indent=2): the serialisation of a
\* value, kept as a document tagged with the value it encodes
JsonDumps(value) == [json |-> value]

\* a parse fallback that drops the unparsed text
ParseJsonOrRaw_drops_text(pv) ==
    IF JsonLoads(pv).ok THEN JsonLoads(pv).value
    ELSE PyDict(EmptyMap)

\* conversation_analyzer.py: try json.loads(text) / except: {"raw_text": text}
ParseJsonOrRaw(pv) ==
    IF JsonLoads(pv).ok THEN JsonLoads(pv).value
    ELSE PyDict(Singleton("raw_text", pv))

\* the keys of the dicts app.py writes, in the order the dicts were built
JsonKeyOrder == <<"meta", "role", "content", "num_turns", "timestamp">>

\* a dict written as a JSON object: its members in insertion order, a nested
\* dict as a nested object, an int as a number, a str as a string
RECURSIVE JsonObject(_)
JsonObject(d) ==
    LET keys == SelectSeq(JsonKeyOrder, LAMBDA k : k \in DOMAIN d) IN
    [type |-> "object",
     members |-> [i \in DOMAIN keys |->
        [name |-> keys[i],
         value |-> IF keys[i] = "meta" THEN JsonObject(d[keys[i]])
                   ELSE IF keys[i] = "num_turns" THEN [type |-> "number", digits |-> d[keys[i]]]
                   ELSE [type |-> "string", chars |-> d[keys[i]]]]]]

\* a writer that leaves the timestamps out
json_dump_without_timestamp(entries) ==
    [type |-> "array",
     elements |-> [i \in DOMAIN entries |->
         JsonObject([k \in DOMAIN entries[i] \ {"timestamp"} |-> entries[i][k]])]]

\* json.dump(entries, f, ensure_ascii=False, indent=2) of a list of dicts:
\* the document written to the file
json_dump(entries) ==
    [type |-> "array", elements |-> [i \in DOMAIN entries |-> JsonObject(entries[i])]]

\* there is no file
NoFile == [type |-> "none", elements |-> <<>>]

\* a JSON object read back as a dict: one key per member name, the value of
\* the last member of that name
RECURSIVE PyObject(_)
PyObject(jv) ==
    LET names == {jv.members[i].name : i \in DOMAIN jv.members}
        last(k) == CHOOSE i \in DOMAIN jv.members :
                      /\ jv.members[i].name = k
                      /\ \A j \in DOMAIN jv.members : jv.members[j].name = k => j <= i
        value(m) == IF m.value.type = "object" THEN PyObject(m.value)
                    ELSE IF m.value.type = "number" THEN m.value.digits
                    ELSE m.value.chars
    IN  [k \in names |-> value(jv.members[last(k)])]

\* json.load(f) of a file holding an array of objects
json_load(doc) == [i \in DOMAIN doc.elements |-> PyObject(doc.elements[i])]

(* ----------------------- transcript entries ---------------------------- *)

Roles == {"human", "assistant"}

Turn(role, content, timestamp) == [role |-> role, content |-> content, timestamp |-> timestamp]

\* the metadata record app.py prepends to a saved transcript: it has no "role"
MetaEntry == [meta |-> "meta"]

\* an entry with a role and no content
NoContentEntry == [role |-> "human"]

\* role_label = "人間" if role == "human" else "アシスタント"
RoleLabel(role) == IF role = "human" THEN "ningen" ELSE "ashisutanto"

\* dict.get(key, "")
Get(entry, key) == IF key \in DOMAIN entry THEN entry[key] ELSE ""

\* ConversationAnalyzer._format_conversation_for_analysis: one block per
\* message; message["role"] / message["content"] raise KeyError when missing
format_conversation_for_analysis(conversation) ==
    IF \E i \in DOMAIN conversation :
          ~ ({"role", "content"} \subseteq DOMAIN conversation[i])
    THEN [ok |-> FALSE, text |-> <<>>]
    ELSE [ok |-> TRUE,
          text |-> [i \in DOMAIN conversation |->
                      <<RoleLabel(conversation[i].role), conversation[i].content>>]]

\* ConversationSummarizer._format_conversation: msg.get(...) never raises
format_conversation(conversation) ==
    [ok |-> TRUE,
     text |-> [i \in DOMAIN conversation |->
                 <<RoleLabel(Get(conversation[i], "role")), Get(conversation[i], "content")>>]]

\* datetime.fromisoformat(ts).strftime("%Y-%m-%d %H:%M:%S")
FormatTimestamp(ts) == [shown |-> ts]

\* timestamp = "" (the message has no "timestamp")
NoTimestamp == [shown |-> -1]

\* UserProfileExtractor._format_conversation_for_extraction: entries without
\* "role" are skipped; message["content"] raises KeyError when missing
format_conversation_for_extraction(conversation) ==
    LET msgs == SelectSeq(conversation, LAMBDA m : "role" \in DOMAIN m) IN
    IF \E i \in DOMAIN msgs : "content" \notin DOMAIN msgs[i]
    THEN [ok |-> FALSE, text |-> <<>>]
    ELSE [ok |-> TRUE,
          text |-> [i \in DOMAIN msgs |->
                      <<RoleLabel(msgs[i].role),
                        IF "timestamp" \in DOMAIN msgs[i]
                        THEN FormatTimestamp(msgs[i].timestamp) ELSE NoTimestamp,
                        msgs[i].content>>]]

(* ------------------- summarizer line parser ---------------------------- *)

\* one iteration of the loop `for line in lines` of summarize_conversation;
\* st = [current_key, profile, episode, next], current_key "" standing for None
SummaryLine(st, rawline) ==
    LET line == Strip(rawline)
        item == IF StartsWith(line, "- ") THEN Tail(line) ELSE line
    IN  IF StartsWith(line, "profile:")
        THEN [st EXCEPT !.current_key = "profile",
                        !.profile = Strip(Replace(line, "profile:"))]
        ELSE IF StartsWith(line, "episode:") THEN [st EXCEPT !.current_key = "episode"]
        ELSE IF StartsWith(line, "next:") THEN [st EXCEPT !.current_key = "next"]
        ELSE IF line # <<>> /\ st.current_key # ""
        THEN IF st.current_key = "episode" THEN [st EXCEPT !.episode = Append(@, item)]
             ELSE IF st.current_key = "next" THEN [st EXCEPT !.next = Append(@, item)]
             ELSE IF st.current_key = "profile" /\ st.profile = <<>>
                  THEN [st EXCEPT !.profile = item]
             ELSE st
        ELSE st

RECURSIVE SummaryLoop(_, _)
SummaryLoop(st, lines) ==
    IF lines = <<>> THEN st ELSE SummaryLoop(SummaryLine(st, Head(lines)), Tail(lines))

\* summarize_conversation, the inner try of both branches: the line parse of
\* result_text, or {"raw_text": result_text} when the parse raises (only
\* result_text.strip() can raise, when result_text is not a str)
ParseSummary(pv) ==
    IF pv.t # "str" THEN Singleton("raw_text", pv)
    ELSE LET st == SummaryLoop([current_key |-> "", profile |-> <<>>,
                                episode |-> <<>>, next |-> <<>>], pv.v)
         IN  [profile |-> st.profile, episode |-> st.episode, next |-> st.next]

(* ------------------- profile extractor line parser --------------------- *)

\* str.lower() on one token
Lower(tok) ==
    CASE tok = "Profile:" -> "profile:"
      [] tok = "Context:" -> "context:"
      [] tok = "Next:" -> "next:"
      [] OTHER -> tok

\* the searched-for substrings a token contains
Substrings(tok) ==
    CASE tok = "profile:" -> {"profile:", "profile"}
      [] tok = "context:" -> {"context:", "context"}
      [] tok = "next:" -> {"next:", "next"}
      [] OTHER -> {tok}

\* sub in line
In(sub, line) == \E i \in DOMAIN line : sub \in Substrings(line[i])

LowerLine(line) == [i \in DOMAIN line |-> Lower(line[i])]

\* result[current_section] = '\n'.join(section_content).strip(), done only
\* `if current_section and section_content`
Flush(st) ==
    IF st.current_section # "" /\ st.section_content # <<>>
    THEN [st.result EXCEPT ![st.current_section] = st.section_content]
    ELSE st.result

\* f"{current_section}:"
SectionLabel(section) ==
    CASE section = "profile" -> "profile:"
      [] section = "context" -> "context:"
      [] section = "next" -> "next:"
      [] OTHER -> ":"

\* a loop body that removes a leading bullet marker from content lines, as
\* the summarizer's parser does
ExtractionLine_strips_bullet(st, rawline) ==
    LET line == Strip(rawline)
        low == LowerLine(line)
    IN  IF line = <<>> THEN st
        ELSE IF In("profile:", low) \/ (In("1.", line) /\ In("profile", low))
        THEN [st EXCEPT !.current_section = "profile", !.section_content = <<>>]
        ELSE IF In("context:", low) \/ (In("2.", line) /\ In("context", low))
        THEN [result |-> Flush(st), current_section |-> "context", section_content |-> <<>>]
        ELSE IF In("next:", low) \/ (In("3.", line) /\ In("next", low))
        THEN [result |-> Flush(st), current_section |-> "next", section_content |-> <<>>]
        ELSE IF st.current_section # ""
        THEN [st EXCEPT !.section_content =
                 Append(@, IF StartsWith(line, "- ") THEN Tail(line) ELSE line)]
        ELSE st

\* one iteration of the loop of _parse_extraction_result;
\* st = [result, current_section, section_content]
ExtractionLine(st, rawline) ==
    LET line == Strip(rawline)
        low == LowerLine(line)
        label == SectionLabel(st.current_section)
    IN  IF line = <<>> THEN st
        ELSE IF In("profile:", low) \/ (In("1.", line) /\ In("profile", low))
        THEN [st EXCEPT !.current_section = "profile", !.section_content = <<>>]
        ELSE IF In("context:", low) \/ (In("2.", line) /\ In("context", low))
        THEN [result |-> Flush(st), current_section |-> "context", section_content |-> <<>>]
        ELSE IF In("next:", low) \/ (In("3.", line) /\ In("next", low))
        THEN [result |-> Flush(st), current_section |-> "next", section_content |-> <<>>]
        ELSE IF st.current_section # ""
        THEN [st EXCEPT !.section_content =
                 Append(@, IF StartsWith(line, label) THEN Strip(Tail(line)) ELSE line)]
        ELSE st

RECURSIVE ExtractionLoop(_, _)
ExtractionLoop(st, lines) ==
    IF lines = <<>> THEN st ELSE ExtractionLoop(ExtractionLine(st, Head(lines)), Tail(lines))

\* UserProfileExtractor._parse_extraction_result: ok = FALSE when
\* extraction_text.split raises (extraction_text is not a str)
parse_extraction_result(pv) ==
    IF pv.t # "str" THEN [ok |-> FALSE, value |-> EmptyMap]
    ELSE [ok |-> TRUE,
          value |-> Flush(ExtractionLoop(
                       [result |-> [profile |-> <<>>, context |-> <<>>, next |-> <<>>],
                        current_section |-> "", section_content |-> <<>>], pv.v))]

(* --------------------- inputs of the pipelines ------------------------- *)

\* os.getenv("GOOGLE_API_KEY"): unset, set to the empty string, or set
ApiKeys == {"<unset>", "", "key"}

\* a credential check that tests for an unset variable only
CredentialMissing_unset_only(key) == key = "<unset>"

\* `if not self.google_api_key`
CredentialMissing(key) == key \in {"<unset>", ""}

Entries == {MetaEntry, NoContentEntry} \cup {Turn(r, "c", 0) : r \in Roles}

RECURSIVE SeqsUpTo(_, _)
SeqsUpTo(S, n) ==
    IF n = 0 THEN {<<>>}
    ELSE LET shorter == SeqsUpTo(S, n - 1)
         IN  shorter \cup {Append(q, e) : q \in shorter, e \in S}

\* transcripts handed to a pipeline entry point
Conversations == SeqsUpTo(Entries, MaxConvLen)

\* a JSON object
TxtJsonObject == << <<"{", "\"title\"", ":", "\"v\"", "}">> >>

\* a JSON document that is not an object
TxtJsonArray == << <<"[", "]">> >>

\* free text in labelled sections: not JSON
TxtSections == << <<"profile:", "p">>, <<"q">>, <<"episode:">>, <<"- ", "e">>,
                  <<"next:">>, <<"n">> >>

\* free text in the format of the summarizer's 出力例: each text on the line
\* of its label, the sections separated by empty lines
TxtPrompted == << <<"profile:", "p">>, <<>>, <<"episode:", "e">>, <<>>, <<"next:", "n">> >>

\* response.text of a model call that returned
ModelTexts == {PyNone, PyStr(TxtJsonObject), PyStr(TxtJsonArray), PyStr(TxtSections),
               PyStr(TxtPrompted)}

\* what one model invocation can do: raise, or return a response
Outcomes == {[ok |-> FALSE, text |-> PyNone]} \cup {[ok |-> TRUE, text |-> t] : t \in ModelTexts}

SystemPrompts == {"sp"}

(* --------------------------- model names ------------------------------- *)

\* self.model_name
model_name(pl) ==
    CASE pl = "analyzer" -> "gemini-2.0-flash"
      [] pl = "summarizer" -> "gemini-2.0-flash-lite"
      [] pl = "extractor" -> "gemini-2.0-flash"

\* self.fallback_model_name
fallback_model_name(pl) ==
    CASE pl = "analyzer" -> "gemini-1.5-pro"
      [] pl = "summarizer" -> "gemini-2.0-flash"
      [] pl = "extractor" -> "gemini-1.5-pro"

\* a fallback call that drops the schema
CallSchema_fallback_without_schema(pl, stg, slt) ==
    IF pl = "analyzer" /\ slt = "primary"
    THEN (IF stg = 1 THEN "create_analysis_schema" ELSE "create_final_output_schema")
    ELSE "<none>"

\* the response_schema a call passes: analysis schema in stage 1 and final
\* output schema in stage 2 of the analyzer, on the primary and on the
\* fallback call alike; the summarizer and the extractor pass none
CallSchema(pl, stg, slt) ==
    IF pl = "analyzer"
    THEN (IF stg = 1 THEN "create_analysis_schema" ELSE "create_final_output_schema")
    ELSE "<none>"

(* ------------------------- response schemas ---------------------------- *)

\* class SchemaType(str, Enum)
SchemaType == {"string", "number", "integer", "boolean", "array", "object"}

\* create_analysis_schema(): the schema of the stage-1 result
create_analysis_schema ==
    [type |-> "object",
     properties |->
       [claims |-> [type |-> "array", description |-> "claims made in the conversation",
                    items |-> [type |-> "object",
                 properties |-> [text |-> [type |-> "string", description |-> "text of the claim"],
                                source |-> [type |-> "string", description |-> "human or assistant"],
                                evidence |-> [type |-> "string", description |-> "utterance the claim rests on"],
                                certainty |-> [type |-> "string", description |-> "high, medium, low"]],
                 required |-> <<"text", "source", "evidence", "certainty">>]],
        topics |-> [type |-> "array", description |-> "topics of the conversation",
                    items |-> [type |-> "object",
                 properties |-> [name |-> [type |-> "string", description |-> "name of the topic"],
                                description |-> [type |-> "string", description |-> "what the topic is"],
                                relevance |-> [type |-> "string", description |-> "high, medium, low"]],
                 required |-> <<"name", "description", "relevance">>]],
        summary |-> [type |-> "string", description |-> "summary of about 500 characters"],
        sentiment |-> [type |-> "object",
         description |-> "sentiment analysis",
         properties |-> [human |-> [type |-> "string", description |-> "sentiment of the human"],
                        assistant |-> [type |-> "string", description |-> "sentiment of the assistant"],
                        overall |-> [type |-> "string", description |-> "mood of the conversation"]],
         required |-> <<"human", "assistant", "overall">>],
        naturalness |-> [type |-> "object",
         description |-> "naturalness analysis",
         properties |-> [human_like |-> [type |-> "string", description |-> "scale 1-10"],
                        reasoning |-> [type |-> "string", description |-> "why"],
                        improvement |-> [type |-> "string", description |-> "how to improve"]],
         required |-> <<"human_like", "reasoning", "improvement">>]],
     required |-> <<"claims", "topics", "summary", "sentiment", "naturalness">>]

\* a final schema that requires a key it does not describe
create_final_output_schema_requires_unknown_key ==
    [type |-> "object",
     properties |-> [title |-> [type |-> "string", description |-> "title of the conversation"]],
     required |-> <<"title", "summary">>]

\* create_final_output_schema(): the schema of the stage-2 result
create_final_output_schema ==
    [type |-> "object",
     properties |->
       [title |-> [type |-> "string", description |-> "title of the conversation"],
        summary |-> [type |-> "string", description |-> "summary of about 1000 characters"],
        key_points |-> [type |-> "array", description |-> "key points", items |-> [type |-> "string"]],
        topics |-> [type |-> "array", description |-> "main topics", items |-> [type |-> "string"]],
        human_analysis |-> [type |-> "object",
         description |-> "analysis of the human role",
         properties |-> [naturalness |-> [type |-> "string", description |-> "scale 1-10"],
                        strengths |-> [type |-> "array", description |-> "human-like points", items |-> [type |-> "string"]],
                        weaknesses |-> [type |-> "array", description |-> "points that are not human-like", items |-> [type |-> "string"]],
                        improvement |-> [type |-> "string", description |-> "proposals"]],
         required |-> <<"naturalness", "strengths", "weaknesses", "improvement">>],
        assistant_analysis |-> [type |-> "object",
         description |-> "analysis of the assistant",
         properties |-> [helpfulness |-> [type |-> "string", description |-> "scale 1-10"],
                        accuracy |-> [type |-> "string", description |-> "scale 1-10"],
                        strengths |-> [type |-> "array", description |-> "strengths of the assistant", items |-> [type |-> "string"]],
                        weaknesses |-> [type |-> "array", description |-> "weaknesses of the assistant", items |-> [type |-> "string"]]],
         required |-> <<"helpfulness", "accuracy", "strengths", "weaknesses">>],
        overall_quality |-> [type |-> "string", description |-> "scale 1-10"]],
     required |-> <<"title", "summary", "key_points", "topics", "human_analysis",
                    "assistant_analysis", "overall_quality">>]

\* the schema a call carries under the name of the function that built it
response_schema(name) ==
    IF name = "create_analysis_schema" THEN create_analysis_schema
    ELSE create_final_output_schema

\* the prompt templates
intermediate_prompt(conversation_text) == [template |-> "intermediate", body |-> conversation_text]

\* a stage-2 prompt that leaves the intermediate result out
final_prompt_without_result(analysis) == [template |-> "final", body |-> JsonDumps(PyDict(EmptyMap))]

\* final_prompt: the template with json.dumps(intermediate_analysis, ...) in it
final_prompt(analysis) == [template |-> "final", body |-> JsonDumps(analysis)]

summary_prompt(conversation_text, system_prompt) ==
    [template |-> "summary", body |-> <<conversation_text, system_prompt>>]

extraction_prompt(conversation_text) == [template |-> "extraction", body |-> conversation_text]

NoPrompt == [template |-> "<none>", body |-> <<>>]

(* ------------------------------ state ---------------------------------- *)

VARIABLES
    pc,                    \* "idle", "call" (a pipeline is at a model call), "generating", "finished", "done"
    pipeline,              \* the entry point running: "analyzer", "summarizer", "extractor", "engine", "<none>"
    google_api_key,        \* self.google_api_key
    conversation,          \* the transcript argument of the pipeline
    prompt,                \* intermediate_prompt / final_prompt / prompt / extraction_prompt
    stage,                 \* analyzer: 1 or 2; other pipelines: 1; engine: index of the half-turn
    slot,                  \* "primary" or "fallback": the model the next call goes to
    calls,                 \* every model invocation of the run, in order
    intermediate_analysis, \* the analyzer's stage-1 result
    result,                \* what the entry point did: nothing yet, returned a value, raised
    now,                   \* datetime.now()
    initial_prompt,        \* app.py: the seed utterance
    num_turns,             \* app.py: the slider value
    stream,                \* app.py: use_streaming
    transcript,            \* the engine's list of turns
    current_role,          \* the role generating the next half-turn
    completed,             \* half-turns completed so far (the seed included)
    aborted,               \* a GenerationFailure occurred
    chunks_sent,           \* chunks delivered for the call in progress
    streaming_content,     \* st.session_state.streaming_content
    is_streaming,          \* st.session_state.is_streaming
    conversation_history,  \* st.session_state.conversation_history
    saved_json,            \* what the run wrote to conversations/conversation_<timestamp>.json
    file_writes,           \* the writes to conversations/ so far: file name and writing run
    runs,                  \* runs finished so far
    extraction_text,       \* _parse_extraction_result: the lines of its argument
    lines_read,            \* _parse_extraction_result: iterations of the loop done
    parse_state,           \* _parse_extraction_result: result, current_section, section_content
    parse_pc,              \* _parse_extraction_result: "off", "loop" or "returned"
    extraction_result,     \* what _parse_extraction_result returned
    user_profiles,         \* the files the profile page's run wrote to user_profiles/
    html_content,          \* profile page: what generate_user_profile_html returned
    page_error             \* the exception that ended the rendering of the page, "" for none

callVars == <<pipeline, google_api_key, conversation, prompt, stage, slot, calls,
              intermediate_analysis, result>>

engineVars == <<initial_prompt, num_turns, stream, transcript, current_role, completed,
                aborted, chunks_sent>>

sessionVars == <<streaming_content, is_streaming, conversation_history, saved_json>>

parserVars == <<extraction_text, lines_read, parse_state, parse_pc, extraction_result>>

profileVars == <<user_profiles, html_content, page_error>>

vars == <<pc, callVars, now, engineVars, sessionVars, runs, file_writes, parserVars, profileVars>>

NoResult == [kind |-> "none", value |-> EmptyMap]

\* `return value`
Return(value) == [kind |-> "return", value |-> value]

\* an exception leaves the entry point
Raise == [kind |-> "raise", value |-> EmptyMap]

\* one record of the call log
Call(pl, stg, slt, p, o) ==
    [pipeline |-> pl, stage |-> stg, slot |-> slt,
     model |-> IF slt = "primary" THEN model_name(pl) ELSE fallback_model_name(pl),
     prompt |-> p, schema |-> CallSchema(pl, stg, slt), ok |-> o.ok, text |-> o.text]

\* generate_user_profile_html was not called
NoHtml == [kind |-> "<none>"]

\* the state of the application before anything ran
Idle ==
    /\ pc = "idle"
    /\ pipeline = "<none>"
    /\ google_api_key = "<unset>"
    /\ conversation = <<>>
    /\ prompt = NoPrompt
    /\ stage = 0
    /\ slot = "primary"
    /\ calls = <<>>
    /\ intermediate_analysis = PyNone
    /\ result = NoResult
    /\ now = 0
    /\ initial_prompt = ""
    /\ num_turns = 0
    /\ stream = FALSE
    /\ transcript = <<>>
    /\ current_role = "human"
    /\ completed = 0
    /\ aborted = FALSE
    /\ chunks_sent = 0
    /\ streaming_content = [assistant |-> <<>>, human |-> <<>>]
    /\ is_streaming = FALSE
    /\ conversation_history = <<>>
    /\ saved_json = NoFile
    /\ file_writes = {}
    /\ runs = 0
    /\ user_profiles = {}
    /\ html_content = NoHtml
    /\ page_error = ""

\* result = {"profile": "", "context": "", "next": ""}; current_section = None;
\* section_content = []
StartOfParse ==
    [result |-> [profile |-> <<>>, context |-> <<>>, next |-> <<>>],
     current_section |-> "", section_content |-> <<>>]

Init ==
    /\ Idle
    /\ extraction_text = <<>>
    /\ lines_read = 0
    /\ parse_state = StartOfParse
    /\ parse_pc = "off"
    /\ extraction_result = StartOfParse.result

(* ---------------------- the pipelines' outer handlers ------------------ *)

\* `if not self.google_api_key: return {"error": ...}`
MissingKeyReport == Return(Singleton("error", "Google API Key is not set"))

\* an outer handler that lets the exception through
OuterExcept_reraises(pl) == Raise

\* `except Exception as e: return {"error": ...}` closing each entry point
\* (and `except Exception as e2` of the summarizer's fallback call)
OuterExcept(pl) ==
    Return(Singleton("error",
        CASE pl = "analyzer" -> "error during conversation analysis"
          [] pl = "summarizer" -> "error during conversation summary"
          [] OTHER -> "error during profile extraction"))

\* an entry point that hands out the stage-1 result together with the error
Leave_with_partial_result(r) ==
    /\ result' = (IF r.kind = "return" /\ "error" \in DOMAIN r.value /\ intermediate_analysis # PyNone
                  THEN Return(Merge(r.value, Singleton("intermediate_analysis", intermediate_analysis)))
                  ELSE r)
    /\ pc' = "done"

\* the entry point is left: with a report, or with the error report of the
\* outer handler
Leave(r) ==
    /\ result' = r
    /\ pc' = "done"

(* --------------------------- the analyzer ------------------------------ *)

\* analyze_conversation up to its first model call: the credential check,
\* the formatting of the transcript and the stage-1 prompt
analyze_conversation(key, conv) ==
    /\ pc = "idle"
    /\ pipeline' = "analyzer"
    /\ google_api_key' = key
    /\ conversation' = conv
    /\ calls' = <<>>
    /\ intermediate_analysis' = PyNone
    /\ stage' = 1
    /\ slot' = "primary"
    /\ IF CredentialMissing(key)
       THEN Leave(MissingKeyReport) /\ prompt' = NoPrompt
       ELSE IF ~ format_conversation_for_analysis(conv).ok
       THEN Leave(OuterExcept("analyzer")) /\ prompt' = NoPrompt
       ELSE /\ prompt' = intermediate_prompt(format_conversation_for_analysis(conv).text)
            /\ pc' = "call"
            /\ result' = NoResult
    /\ UNCHANGED <<now, engineVars, sessionVars, runs, file_writes, parserVars, profileVars>>

\* analysis_result = {"intermediate_analysis": ..., "final_analysis": ...,
\*                    "meta": {"timestamp": ..., "model": self.model_name}}
analysis_result(intermediate, final) ==
    [intermediate_analysis |-> intermediate,
     final_analysis |-> final,
     meta |-> [timestamp |-> now, model |-> model_name("analyzer")]]

\* ConversationAnalyzer.generate_report: the error page for an error report,
\* else final = analysis_result.get("final_analysis", {}) and final.get(...)
\* for every field, which raises AttributeError when final is not a dict
generate_report(report) ==
    IF "error" \in DOMAIN report THEN Return("<error page>")
    ELSE IF "final_analysis" \notin DOMAIN report THEN Return("<report>")
    ELSE IF report.final_analysis.t = "dict" THEN Return("<report>")
    ELSE Raise

\* a stage of the analyzer has its result: stage 1 goes on to the stage-2
\* prompt and call, stage 2 returns the report
AnalyzerStageDone(value) ==
    IF stage = 1
    THEN /\ intermediate_analysis' = value
         /\ prompt' = final_prompt(value)
         /\ stage' = 2
         /\ slot' = "primary"
         /\ pc' = "call"
         /\ UNCHANGED result
    ELSE /\ Leave(Return(analysis_result(intermediate_analysis, value)))
         /\ UNCHANGED <<intermediate_analysis, prompt, stage, slot>>

\* a fallback handler that swallows the exception and goes on with an empty result
AnalyzerFallbackFailed_swallowed == AnalyzerStageDone(PyDict(EmptyMap))

\* the fallback call of a stage raised: the exception leaves the `except`
\* block of the stage and reaches the outer handler
AnalyzerFallbackFailed ==
    /\ Leave(OuterExcept("analyzer"))
    /\ UNCHANGED <<intermediate_analysis, prompt, stage, slot>>

\* a primary call issued together with the fallback call of its stage
AnalyzerPrimary_with_fallback_in_parallel(o) ==
    /\ pc = "call" /\ pipeline = "analyzer" /\ slot = "primary"
    /\ calls' = calls \o << Call("analyzer", stage, "primary", prompt, o),
                            Call("analyzer", stage, "fallback", prompt, o) >>
    /\ IF o.ok
       THEN AnalyzerStageDone(ParseJsonOrRaw(o.text))
       ELSE AnalyzerFallbackFailed
    /\ UNCHANGED <<pipeline, google_api_key, conversation, now, engineVars, sessionVars, runs, file_writes, parserVars, profileVars>>

\* self.genai_client.models.generate_content(model=self.model_name, ...)
AnalyzerPrimary(o) ==
    /\ pc = "call" /\ pipeline = "analyzer" /\ slot = "primary"
    /\ calls' = Append(calls, Call("analyzer", stage, "primary", prompt, o))
    /\ IF o.ok
       THEN AnalyzerStageDone(ParseJsonOrRaw(o.text))
       ELSE /\ slot' = "fallback"
            /\ UNCHANGED <<pc, intermediate_analysis, prompt, stage, result>>
    /\ UNCHANGED <<pipeline, google_api_key, conversation, now, engineVars, sessionVars, runs, file_writes, parserVars, profileVars>>

\* a fallback branch whose result never reaches the report: the report is
\* built from a name the branch did not bind, and the outer handler answers
AnalyzerFallback_result_lost(o) ==
    /\ pc = "call" /\ pipeline = "analyzer" /\ slot = "fallback"
    /\ calls' = Append(calls, Call("analyzer", stage, "fallback", prompt, o))
    /\ AnalyzerFallbackFailed
    /\ UNCHANGED <<pipeline, google_api_key, conversation, now, engineVars, sessionVars, runs, file_writes, parserVars, profileVars>>

\* genai.GenerativeModel(model_name=self.fallback_model_name).generate_content(...)
AnalyzerFallback(o) ==
    /\ pc = "call" /\ pipeline = "analyzer" /\ slot = "fallback"
    /\ calls' = Append(calls, Call("analyzer", stage, "fallback", prompt, o))
    /\ IF o.ok
       THEN AnalyzerStageDone(ParseJsonOrRaw(o.text))
       ELSE AnalyzerFallbackFailed
    /\ UNCHANGED <<pipeline, google_api_key, conversation, now, engineVars, sessionVars, runs, file_writes, parserVars, profileVars>>

(* -------------------------- the summarizer ----------------------------- *)

summarize_conversation(key, conv, system_prompt) ==
    /\ pc = "idle"
    /\ pipeline' = "summarizer"
    /\ google_api_key' = key
    /\ conversation' = conv
    /\ calls' = <<>>
    /\ intermediate_analysis' = PyNone
    /\ stage' = 1
    /\ slot' = "primary"
    /\ IF CredentialMissing(key)
       THEN Leave(MissingKeyReport) /\ prompt' = NoPrompt
       ELSE /\ prompt' = summary_prompt(format_conversation(conv).text, system_prompt)
            /\ pc' = "call"
            /\ result' = NoResult
    /\ UNCHANGED <<now, engineVars, sessionVars, runs, file_writes, parserVars, profileVars>>

\* a return that forgets the timestamp
StampedReport_unstamped(report) == Return(report)

\* summary["timestamp"] = datetime.now().isoformat(); return summary
StampedReport(report) == Return(Merge(report, Singleton("timestamp", now)))

SummarizerPrimary(o) ==
    /\ pc = "call" /\ pipeline = "summarizer" /\ slot = "primary"
    /\ calls' = Append(calls, Call("summarizer", stage, "primary", prompt, o))
    /\ IF o.ok
       THEN Leave(StampedReport(ParseSummary(o.text))) /\ UNCHANGED slot
       ELSE slot' = "fallback" /\ UNCHANGED <<pc, result>>
    /\ UNCHANGED <<pipeline, google_api_key, conversation, prompt, stage,
                   intermediate_analysis, now, engineVars, sessionVars, runs, file_writes, parserVars, profileVars>>

SummarizerFallback(o) ==
    /\ pc = "call" /\ pipeline = "summarizer" /\ slot = "fallback"
    /\ calls' = Append(calls, Call("summarizer", stage, "fallback", prompt, o))
    /\ IF o.ok
       THEN Leave(StampedReport(ParseSummary(o.text)))
       ELSE Leave(OuterExcept("summarizer"))
    /\ UNCHANGED <<pipeline, google_api_key, conversation, prompt, stage, slot,
                   intermediate_analysis, now, engineVars, sessionVars, runs, file_writes, parserVars, profileVars>>

(* ----------------------- the profile extractor ------------------------- *)

extract_user_profile(key, conv) ==
    /\ pc = "idle"
    /\ pipeline' = "extractor"
    /\ google_api_key' = key
    /\ conversation' = conv
    /\ calls' = <<>>
    /\ intermediate_analysis' = PyNone
    /\ stage' = 1
    /\ slot' = "primary"
    /\ IF CredentialMissing(key)
       THEN Leave(MissingKeyReport) /\ prompt' = NoPrompt
       ELSE IF ~ format_conversation_for_extraction(conv).ok
       THEN Leave(OuterExcept("extractor")) /\ prompt' = NoPrompt
       ELSE /\ prompt' = extraction_prompt(format_conversation_for_extraction(conv).text)
            /\ pc' = "call"
            /\ result' = NoResult
    /\ UNCHANGED <<now, engineVars, sessionVars, runs, file_writes, parserVars, profileVars>>

\* extraction_result = self._parse_extraction_result(extraction_text), the
\* timestamp and the return; a raising parse reaches the outer handler
ExtractionDone(text) ==
    IF parse_extraction_result(text).ok
    THEN Leave(StampedReport(parse_extraction_result(text).value))
    ELSE Leave(OuterExcept("extractor"))

ExtractorPrimary(o) ==
    /\ pc = "call" /\ pipeline = "extractor" /\ slot = "primary"
    /\ calls' = Append(calls, Call("extractor", stage, "primary", prompt, o))
    /\ IF o.ok
       THEN ExtractionDone(o.text) /\ UNCHANGED slot
       ELSE slot' = "fallback" /\ UNCHANGED <<pc, result>>
    /\ UNCHANGED <<pipeline, google_api_key, conversation, prompt, stage,
                   intermediate_analysis, now, engineVars, sessionVars, runs, file_writes, parserVars, profileVars>>

ExtractorFallback(o) ==
    /\ pc = "call" /\ pipeline = "extractor" /\ slot = "fallback"
    /\ calls' = Append(calls, Call("extractor", stage, "fallback", prompt, o))
    /\ IF o.ok
       THEN ExtractionDone(o.text)
       ELSE Leave(OuterExcept("extractor"))
    /\ UNCHANGED <<pipeline, google_api_key, conversation, prompt, stage, slot,
                   intermediate_analysis, now, engineVars, sessionVars, runs, file_writes, parserVars, profileVars>>

(* --------------------------- the profile page -------------------------- *)

\* f"user_profiles/user_profile_{timestamp}.json" and ...html, timestamp =
\* datetime.now().strftime("%Y%m%d_%H%M%S")
profile_file(clock, suffix) == [prefix |-> "user_profile_", timestamp |-> clock, suffix |-> suffix]

\* UserProfileExtractor.save_user_profile(user_profile, filename): the file
\* is written, whatever the profile holds
save_user_profile(user_profile, filename) == [written |-> {filename}, returned |-> filename]

\* UserProfileExtractor.generate_user_profile_html(user_profile, filename):
\* for a profile with an `error` key an HTML fragment is returned and no
\* file is written; otherwise the page is written and its path returned
generate_user_profile_html(user_profile, filename) ==
    IF "error" \in DOMAIN user_profile
    THEN [written |-> {}, returned |-> [kind |-> "html"]]
    ELSE [written |-> {filename}, returned |-> [kind |-> "path", file |-> filename]]

\* render_profile_page after extract_user_profile returned: both saves, the
\* success message, the display, and the two files opened again for the
\* download buttons
render_profile_page ==
    LET user_profile == result.value
        profile_json == profile_file(now, ".json")
        html_file == profile_file(now, ".html")
        saved == save_user_profile(user_profile, profile_json)
        html == generate_user_profile_html(user_profile, html_file)
    IN  /\ pc = "done" /\ pipeline = "extractor"
        /\ html_content = NoHtml
        /\ user_profiles' = saved.written \cup html.written
        /\ html_content' = html.returned
        /\ page_error' = (IF {profile_json, html_file} \subseteq (saved.written \cup html.written)
                          THEN "" ELSE "FileNotFoundError")
        /\ UNCHANGED <<pc, callVars, now, engineVars, sessionVars, runs, file_writes,
                       parserVars>>

(* ------------------- the turn-taking engine ---------------------------- *)
(* LLMManager.simulate_conversation (models/llm_manager.py) is modelled    *)
(* from the design of the turn-taking engine; app.py holds its call site.  *)

\* the seed utterances typed into the text area: it may be left empty
InitialPrompts == {"", "Hello"}

\* texts a successful generation returns
ReplyTexts == {"reply"}

\* what one generation call can do: raise, or return a complete text
EngineOutcomes == {[ok |-> FALSE, text |-> ""]} \cup {[ok |-> TRUE, text |-> t] : t \in ReplyTexts}

OtherRole(role) == IF role = "human" THEN "assistant" ELSE "human"

\* an engine that takes num_turns for the number of half-turns
HalfTurns_single(n) == n

\* the number of half-turns of a run, the seed included
HalfTurns(n) == 2 * n

\* step 1: the transcript starts as the seed utterance of the human role,
\* stamped at start time
SeedTranscript(seed) == << Turn("human", seed, now) >>

\* a context window of the latest turn only
BuildContext_latest_turn_only(role, turns) ==
    [template |-> role,
     body |-> << <<RoleLabel(turns[Len(turns)].role), turns[Len(turns)].content>> >>]

\* step 2: the full transcript so far as role-labelled text, prefixed by the
\* system prompt of the role whose turn it is
BuildContext(role, turns) ==
    [template |-> role,
     body |-> [i \in DOMAIN turns |-> <<RoleLabel(turns[i].role), turns[i].content>>]]

\* an engine that lets the assistant generate every half-turn
NextSpeaker_always_assistant(turns) == "assistant"

\* the role that generates after the turns so far
NextSpeaker(turns) == OtherRole(turns[Len(turns)].role)

EngineCall(k, slt, p, o) ==
    [pipeline |-> "engine", stage |-> k, slot |-> slt,
     model |-> IF slt = "primary" THEN "<role model>" ELSE "<fallback model>",
     prompt |-> p, schema |-> "<none>", ok |-> o.ok, text |-> PyStr(<< <<o.text>> >>)]

\* app.py, `if start_button:` up to the call of simulate_conversation, and
\* the engine's start: the streaming buffers are reset when streaming is on,
\* the transcript is seeded
StartConversation(seed, n, use_streaming) ==
    /\ pc = "idle"
    /\ pipeline' = "engine"
    /\ initial_prompt' = seed
    /\ num_turns' = n
    /\ stream' = use_streaming
    /\ is_streaming' = (IF use_streaming THEN TRUE ELSE is_streaming)
    /\ streaming_content' = (IF use_streaming THEN [assistant |-> <<>>, human |-> <<>>]
                                              ELSE streaming_content)
    /\ transcript' = SeedTranscript(seed)
    /\ completed' = 1
    /\ aborted' = FALSE
    /\ chunks_sent' = 0
    /\ current_role' = NextSpeaker(SeedTranscript(seed))
    /\ calls' = <<>>
    /\ stage' = 1
    /\ slot' = "primary"
    /\ prompt' = BuildContext(NextSpeaker(SeedTranscript(seed)), SeedTranscript(seed))
    /\ result' = (IF 1 < HalfTurns(n) THEN NoResult ELSE Return(SeedTranscript(seed)))
    /\ pc' = (IF 1 < HalfTurns(n) THEN "generating" ELSE "finished")
    /\ UNCHANGED <<google_api_key, conversation, intermediate_analysis, now,
                   conversation_history, saved_json, runs, file_writes, parserVars, profileVars>>

\* callbacks that add the chunk to the buffers of both roles
StreamChunk_into_both_buffers ==
    /\ pc = "generating" /\ stream /\ chunks_sent < MaxChunks
    /\ streaming_content' = [r \in Roles |->
           Append(streaming_content[r], [turn |-> stage, slot |-> slot, n |-> chunks_sent + 1])]
    /\ chunks_sent' = chunks_sent + 1
    /\ UNCHANGED <<pc, callVars, now, initial_prompt, num_turns, stream, transcript,
                   current_role, completed, aborted, is_streaming, conversation_history,
                   saved_json, runs, file_writes, parserVars, profileVars>>

\* app.py assistant_callback / human_callback, called by the engine once per
\* chunk of the generation in progress
StreamChunk ==
    /\ pc = "generating" /\ stream /\ chunks_sent < MaxChunks
    /\ streaming_content' = [streaming_content EXCEPT
           ![current_role] = Append(@, [turn |-> stage, slot |-> slot, n |-> chunks_sent + 1])]
    /\ chunks_sent' = chunks_sent + 1
    /\ UNCHANGED <<pc, callVars, now, initial_prompt, num_turns, stream, transcript,
                   current_role, completed, aborted, is_streaming, conversation_history,
                   saved_json, runs, file_writes, parserVars, profileVars>>

\* step 4: the turn is appended with the returned text and the current
\* instant; the run goes on with the other role or is complete.  The buffers
\* are st.session_state.streaming_content of app.py: the engine is handed only
\* the two callbacks, which append (`+= chunk`), so no step of a run can
\* shorten a buffer and streaming_content is left as it is here
AppendTurn(text) ==
    LET turns == Append(transcript, Turn(current_role, text, now)) IN
    /\ transcript' = turns
    /\ completed' = completed + 1
    /\ chunks_sent' = 0
    /\ slot' = "primary"
    /\ UNCHANGED aborted
    /\ IF Len(turns) < HalfTurns(num_turns)
       THEN /\ current_role' = NextSpeaker(turns)
            /\ stage' = stage + 1
            /\ prompt' = BuildContext(NextSpeaker(turns), turns)
            /\ UNCHANGED <<pc, result>>
       ELSE /\ pc' = "finished"
            /\ result' = Return(turns)
            /\ UNCHANGED <<current_role, stage, prompt>>

\* an engine that gives up the turns generated so far and returns the seed alone
Abort_returns_seed_only ==
    /\ aborted' = TRUE
    /\ pc' = "finished"
    /\ result' = Return(<<transcript[1]>>)
    /\ UNCHANGED <<transcript, completed, chunks_sent, slot, current_role, stage, prompt>>

\* step 5: terminal failure, the transcript so far is returned
Abort ==
    /\ aborted' = TRUE
    /\ pc' = "finished"
    /\ result' = Return(transcript)
    /\ UNCHANGED <<transcript, completed, chunks_sent, slot, current_role, stage, prompt>>

\* step 3: the client is invoked for the role whose turn it is
GeneratePrimary(o) ==
    /\ pc = "generating" /\ slot = "primary"
    /\ calls' = Append(calls, EngineCall(stage, "primary", prompt, o))
    /\ IF o.ok
       THEN AppendTurn(o.text)
       ELSE /\ slot' = "fallback"
            /\ chunks_sent' = 0
            /\ UNCHANGED <<pc, result, transcript, completed, aborted, current_role,
                           stage, prompt>>
    /\ UNCHANGED <<pipeline, google_api_key, conversation, intermediate_analysis, now,
                   initial_prompt, num_turns, stream, sessionVars, runs, file_writes, parserVars, profileVars>>

\* the one re-invocation on the fallback model
GenerateFallback(o) ==
    /\ pc = "generating" /\ slot = "fallback"
    /\ calls' = Append(calls, EngineCall(stage, "fallback", prompt, o))
    /\ IF o.ok THEN AppendTurn(o.text) ELSE Abort
    /\ UNCHANGED <<pipeline, google_api_key, conversation, intermediate_analysis, now,
                   initial_prompt, num_turns, stream, sessionVars, runs, file_writes, parserVars, profileVars>>

\* meta_info of app.py
meta_info == [meta |-> [num_turns |-> num_turns, timestamp |-> now]]

\* conversation_with_meta = [meta_info] + conversation
conversation_with_meta(turns) == <<meta_info>> \o turns

\* timestamp = datetime.now().strftime("%Y%m%d_%H%M%S");
\* json_file = f"conversations/conversation_{timestamp}.json":
\* the file name carries the clock reading to the second
json_file(clock) == [prefix |-> "conversation_", timestamp |-> clock, suffix |-> ".json"]

\* app.py after simulate_conversation returned: the session state is updated
\* and the transcript is saved with the metadata record in front
FinishConversation(save_json) ==
    /\ pc = "finished"
    /\ conversation_history' = result.value
    /\ is_streaming' = FALSE
    /\ saved_json' = (IF save_json THEN json_dump(conversation_with_meta(result.value))
                                   ELSE saved_json)
    /\ file_writes' = (IF save_json
                        THEN file_writes \cup {[name |-> json_file(now), run |-> runs]}
                        ELSE file_writes)
    /\ pc' = "done"
    /\ UNCHANGED <<callVars, now, engineVars, streaming_content, runs, parserVars, profileVars>>

\* ui/history_page.py: the saved file is selected and read back,
\* `conversation = json.load(f)`
render_history_page ==
    /\ pc = "done" /\ pipeline = "engine"
    /\ saved_json # NoFile
    /\ conversation = <<>>
    /\ conversation' = json_load(saved_json)
    /\ UNCHANGED <<pc, pipeline, google_api_key, prompt, stage, slot, calls,
                   intermediate_analysis, result, now, engineVars, sessionVars, runs,
                   file_writes, parserVars, profileVars>>

(* ------------------------------ the rest ------------------------------- *)

\* ui/analysis_page.py, analysis_file / html_file
analysis_file(clock, ext) == [prefix |-> "analysis_", timestamp |-> clock, suffix |-> ext]

\* ui/analysis_page.py: the files the select box offers,
\* [f for f in os.listdir("conversations") if f.endswith(".json")]
conversation_files == {w.name : w \in {f \in file_writes : f.name.suffix = ".json"}}

\* ui/analysis_page.py after analyze_conversation returned: the report is
\* written to conversations/analysis_<timestamp>.json, and the HTML report
\* next to it unless generate_report raises
render_analysis_page ==
    /\ pc = "done" /\ pipeline = "analyzer"
    /\ ~ \E f \in file_writes : f.run = runs /\ f.name.prefix = "analysis_"
    /\ file_writes' = file_writes
           \cup {[name |-> analysis_file(now, ".json"), run |-> runs]}
           \cup (IF generate_report(result.value).kind = "return"
                 THEN {[name |-> analysis_file(now, ".html"), run |-> runs]}
                 ELSE {})
    /\ UNCHANGED <<pc, callVars, now, engineVars, sessionVars, runs, parserVars, profileVars>>

\* the wall clock advances
Tick ==
    /\ now < MaxClock
    /\ now' = now + 1
    /\ UNCHANGED <<pc, callVars, engineVars, sessionVars, runs, file_writes, parserVars, profileVars>>

\* the run is over and a new session starts: the locals of the finished call
\* are gone and app.py initialises the session state afresh; the clock goes on
NextRun ==
    /\ pc = "done"
    /\ runs < MaxRuns
    /\ runs' = runs + 1
    /\ pc' = "idle"
    /\ pipeline' = "<none>"
    /\ google_api_key' = "<unset>"
    /\ conversation' = <<>>
    /\ prompt' = NoPrompt
    /\ stage' = 0
    /\ slot' = "primary"
    /\ calls' = <<>>
    /\ intermediate_analysis' = PyNone
    /\ result' = NoResult
    /\ initial_prompt' = ""
    /\ num_turns' = 0
    /\ stream' = FALSE
    /\ transcript' = <<>>
    /\ current_role' = "human"
    /\ completed' = 0
    /\ aborted' = FALSE
    /\ chunks_sent' = 0
    /\ streaming_content' = [assistant |-> <<>>, human |-> <<>>]
    /\ is_streaming' = FALSE
    /\ conversation_history' = <<>>
    /\ saved_json' = NoFile
    /\ user_profiles' = {}
    /\ html_content' = NoHtml
    /\ page_error' = ""
    /\ UNCHANGED <<now, file_writes, parserVars>>

Next ==
    \/ \E key \in ApiKeys, conv \in Conversations : analyze_conversation(key, conv)
    \/ \E o \in Outcomes : AnalyzerPrimary(o)
    \/ \E o \in Outcomes : AnalyzerFallback(o)
    \/ \E key \in ApiKeys, conv \in Conversations, sp \in SystemPrompts :
          summarize_conversation(key, conv, sp)
    \/ \E o \in Outcomes : SummarizerPrimary(o)
    \/ \E o \in Outcomes : SummarizerFallback(o)
    \/ \E key \in ApiKeys, conv \in Conversations : extract_user_profile(key, conv)
    \/ \E o \in Outcomes : ExtractorPrimary(o)
    \/ \E o \in Outcomes : ExtractorFallback(o)
    \/ render_profile_page
    \/ \E seed \in InitialPrompts, n \in 1..MaxTurns, us \in BOOLEAN :
          StartConversation(seed, n, us)
    \/ StreamChunk
    \/ \E o \in EngineOutcomes : GeneratePrimary(o)
    \/ \E o \in EngineOutcomes : GenerateFallback(o)
    \/ \E sj \in BOOLEAN : FinishConversation(sj)
    \/ render_history_page
    \/ render_analysis_page
    \/ Tick
    \/ NextRun

Spec == Init /\ [][Next]_vars

(* ------------- the profile line parser, one line at a time ------------- *)

\* the lines a model response is made of: headers in lower and upper case
\* and numbered, a numbered line that names no section of its number, a
\* bullet, a plain line, an empty line
ParserLines ==
    { <<"profile:">>, <<"Context:">>, <<"next:">>, <<"1.", "profile">>, <<"1.", "context">>,
      <<"- ", "a">>, <<"b">>, <<>> }

\* extraction_text.split('\n') of the responses up to MaxLines lines
ExtractionTexts == SeqsUpTo(ParserLines, MaxLines) \ {<<>>}

\* _parse_extraction_result is called with a text
ParserInit ==
    /\ Idle
    /\ extraction_text \in ExtractionTexts
    /\ lines_read = 0
    /\ parse_state = StartOfParse
    /\ parse_pc = "loop"
    /\ extraction_result = StartOfParse.result

\* a parser that takes the lines before the first header for the profile
ReadLine_leading_lines_to_profile ==
    /\ parse_pc = "loop" /\ lines_read < Len(extraction_text)
    /\ lines_read' = lines_read + 1
    /\ parse_state' = ExtractionLine(
           IF parse_state.current_section = ""
           THEN [parse_state EXCEPT !.current_section = "profile"] ELSE parse_state,
           extraction_text[lines_read + 1])
    /\ UNCHANGED <<pc, callVars, now, engineVars, sessionVars, runs, file_writes,
                   extraction_text, parse_pc, extraction_result, profileVars>>

\* one iteration of `for line in extraction_text.split('\n')`
ReadLine ==
    /\ parse_pc = "loop" /\ lines_read < Len(extraction_text)
    /\ lines_read' = lines_read + 1
    /\ parse_state' = ExtractionLine(parse_state, extraction_text[lines_read + 1])
    /\ UNCHANGED <<pc, callVars, now, engineVars, sessionVars, runs, file_writes,
                   extraction_text, parse_pc, extraction_result, profileVars>>

\* a parser that answers {"raw_text": ...} when it found no section, as the
\* other pipelines do for a text they cannot parse
ReturnResult_raw_text_when_empty ==
    /\ parse_pc = "loop" /\ lines_read = Len(extraction_text)
    /\ extraction_result' =
           (IF \A s \in {"profile", "context", "next"} : Flush(parse_state)[s] = <<>>
            THEN Singleton("raw_text", extraction_text)
            ELSE Flush(parse_state))
    /\ parse_pc' = "returned"
    /\ UNCHANGED <<pc, callVars, now, engineVars, sessionVars, runs, file_writes,
                   extraction_text, lines_read, parse_state, profileVars>>

\* the loop is over: the last section is stored and the result returned
ReturnResult ==
    /\ parse_pc = "loop" /\ lines_read = Len(extraction_text)
    /\ extraction_result' = Flush(parse_state)
    /\ parse_pc' = "returned"
    /\ UNCHANGED <<pc, callVars, now, engineVars, sessionVars, runs, file_writes,
                   extraction_text, lines_read, parse_state, profileVars>>

ParserNext == ReadLine \/ ReturnResult

ParserSpec == ParserInit /\ [][ParserNext]_vars

(* ======================= properties: shared terms ====================== *)

Pipelines == {"analyzer", "summarizer", "extractor"}

\* a pipeline entry point has returned or raised
PipelineDone == pc = "done" /\ pipeline \in Pipelines

\* the report has an `error` key
IsErrorReport == "error" \in DOMAIN result.value

\* positions in the call log of the calls of a stage on a model
CallsOf(stg, slt) == {i \in DOMAIN calls : calls[i].stage = stg /\ calls[i].slot = slt}

\* the call returned a text
ReturnedText(c) == c.ok /\ c.text.t = "str"

\* the part of the report that a stage produced, without the timestamp
StageResult(stg) ==
    IF pipeline = "analyzer"
    THEN (IF stg = 1 THEN result.value.intermediate_analysis ELSE result.value.final_analysis)
    ELSE [k \in (DOMAIN result.value) \ {"timestamp"} |-> result.value[k]]

\* what a stage makes of the text of a call
Parsed(text) ==
    CASE pipeline = "analyzer" -> ParseJsonOrRaw(text)
      [] pipeline = "summarizer" -> ParseSummary(text)
      [] pipeline = "extractor" -> parse_extraction_result(text).value

\* some primary call failed, and every failed primary call was followed by a
\* fallback call that returned a text
FallbackRecovered ==
    /\ \E i \in DOMAIN calls : calls[i].slot = "primary" /\ ~ calls[i].ok
    /\ \A i \in DOMAIN calls :
          (calls[i].slot = "primary" /\ ~ calls[i].ok) =>
             \E j \in CallsOf(calls[i].stage, "fallback") : ReturnedText(calls[j])

(* ================================ C1 =================================== *)
\* C1: in every pipeline, when primary calls failed and the fallback call of
\* each failed primary returned a text, the entry point returns a report
\* without `error`; for each failed primary the fallback was invoked exactly
\* once, and that stage's part of the report is built from the fallback's text.
C1_FallbackContract ==
    (PipelineDone /\ FallbackRecovered) =>
        /\ result.kind = "return"
        /\ ~ IsErrorReport
        /\ \A i \in DOMAIN calls :
              (calls[i].slot = "primary" /\ ~ calls[i].ok) =>
                 /\ Cardinality(CallsOf(calls[i].stage, "fallback")) = 1
                 /\ \A j \in CallsOf(calls[i].stage, "fallback") :
                       StageResult(calls[i].stage) = Parsed(calls[j].text)

\* both stages of the analyzer were answered by the fallback model
C1_Witness ==
    /\ PipelineDone /\ pipeline = "analyzer" /\ FallbackRecovered
    /\ Len(calls) = 4
    /\ ~ IsErrorReport

(* ================================ C2 =================================== *)
\* C2: a stage of a pipeline invokes the model at most twice, once on the
\* primary model and at most once on the fallback model; a fallback call
\* directly follows the failed primary call of the same stage and carries its
\* prompt and its schema; the analyzer makes at most 4 calls, the summarizer
\* and the extractor at most 2.
C2_BoundedRetry ==
    pipeline \in Pipelines =>
        /\ \A stg \in 1..2 : Cardinality(CallsOf(stg, "primary")) <= 1
        /\ \A stg \in 1..2 : Cardinality(CallsOf(stg, "fallback")) <= 1
        /\ \A i \in DOMAIN calls :
              calls[i].slot = "fallback" =>
                 /\ i > 1
                 /\ calls[i - 1].stage = calls[i].stage
                 /\ calls[i - 1].slot = "primary"
                 /\ ~ calls[i - 1].ok
                 /\ calls[i - 1].prompt = calls[i].prompt
                 /\ calls[i - 1].schema = calls[i].schema
        /\ Len(calls) <= (IF pipeline = "analyzer" THEN 4 ELSE 2)

\* the analyzer used all four calls and still ended in an error
C2_Witness ==
    /\ PipelineDone /\ pipeline = "analyzer"
    /\ Len(calls) = 4
    /\ ~ calls[4].ok

(* ================================ C3 =================================== *)
\* C3: with no API credential (unset or empty) every pipeline entry point
\* returns at once a report with an `error` key, for every transcript, and
\* makes no model call.
C3_MissingCredential ==
    (pipeline \in Pipelines /\ google_api_key \in {"<unset>", ""}) =>
        /\ pc = "done"
        /\ result.kind = "return"
        /\ IsErrorReport
        /\ calls = <<>>

\* the extractor was called with an empty credential and a well-formed transcript
C3_Witness ==
    /\ PipelineDone /\ pipeline = "extractor"
    /\ google_api_key = ""
    /\ format_conversation_for_extraction(conversation).ok
    /\ conversation # <<>>
    /\ IsErrorReport

(* ================================ C4 =================================== *)
\* C4: when the analyzer's stage-1 call failed on the primary and on the
\* fallback model, analyze_conversation has returned an `error` report and no
\* stage-2 call, primary or fallback, was made.
Stage1FailedTwice ==
    /\ pipeline = "analyzer"
    /\ \E i \in CallsOf(1, "primary") : ~ calls[i].ok
    /\ \E i \in CallsOf(1, "fallback") : ~ calls[i].ok

C4_Stage1Failure ==
    Stage1FailedTwice =>
        /\ pc = "done"
        /\ result.kind = "return"
        /\ IsErrorReport
        /\ CallsOf(2, "primary") = {}
        /\ CallsOf(2, "fallback") = {}

C4_Witness == Stage1FailedTwice /\ pc = "done" /\ Len(calls) = 2

(* ================================ C5 =================================== *)

\* the fields of the nominal reports
NominalKeys == {"title", "profile", "episode", "next", "context"}

\* {"raw_text": text}
RawText(text) == PyDict(Singleton("raw_text", text))

\* the keys of the part of the report that a stage produced
StageKeys(stg) == IF pipeline = "analyzer" THEN DOMAIN StageResult(stg).v ELSE DOMAIN StageResult(stg)

\* the call log ends with a call that returned: no stage failed for good
NoTerminalFailure == calls # <<>> /\ calls[Len(calls)].ok

\* C5 as stated: in every pipeline, a call that returns a text which is not
\* valid JSON yields a report with `raw_text` and no nominal field, without a
\* fallback call and without an `error` report.
C5_AsStated ==
    (PipelineDone /\ NoTerminalFailure) =>
        \A i \in DOMAIN calls :
            (calls[i].ok /\ ~ JsonLoads(calls[i].text).ok) =>
                /\ result.kind = "return"
                /\ ~ IsErrorReport
                /\ "raw_text" \in StageKeys(calls[i].stage)
                /\ StageKeys(calls[i].stage) \cap NominalKeys = {}
                /\ \A j \in DOMAIN calls : j > i => calls[j].stage # calls[i].stage

\* C5 (amended): in the analyzer, a call that returns a text json.loads
\* rejects makes the result of its stage exactly {raw_text: text}; the stage
\* makes no further call and the parse failure never ends the call with an
\* `error` report.  The summarizer and the extractor request no schema: a
\* returned string is parsed by lines into the nominal keys, with no
\* `raw_text`, no fallback call and no `error`.
C5_Degradation ==
    /\ pipeline = "analyzer" =>
          \A i \in DOMAIN calls :
              (calls[i].ok /\ ~ JsonLoads(calls[i].text).ok) =>
                  /\ result.kind # "raise"
                  /\ \A j \in DOMAIN calls : j > i => calls[j].stage # calls[i].stage
                  /\ calls[i].stage = 1 =>
                        /\ intermediate_analysis = RawText(calls[i].text)
                        /\ (pc = "done" /\ ~ IsErrorReport) =>
                              result.value.intermediate_analysis = RawText(calls[i].text)
                        /\ pc = "done" => Len(calls) > i
                  /\ calls[i].stage = 2 =>
                        /\ pc = "done"
                        /\ ~ IsErrorReport
                        /\ result.value.final_analysis = RawText(calls[i].text)
    /\ (PipelineDone /\ pipeline \in {"summarizer", "extractor"}
          /\ NoTerminalFailure /\ ReturnedText(calls[Len(calls)])) =>
          /\ result.kind = "return"
          /\ ~ IsErrorReport
          /\ "raw_text" \notin DOMAIN result.value
          /\ DOMAIN result.value = {"timestamp", "profile", "next"} \cup
                (IF pipeline = "summarizer" THEN {"episode"} ELSE {"context"})

\* both stages of the analyzer returned free text on the primary model
C5_Witness ==
    /\ PipelineDone /\ pipeline = "analyzer"
    /\ Len(calls) = 2
    /\ calls[1].text = PyStr(TxtSections) /\ calls[2].text = PyStr(TxtSections)
    /\ result.value.final_analysis = RawText(PyStr(TxtSections))

(* ================================ C6 =================================== *)

ReportKeys == {"error", "raw_text", "timestamp", "profile", "episode", "next", "context",
               "intermediate_analysis", "final_analysis", "meta"}

\* the text cannot be parsed by the pipeline: json.loads rejects it (analyzer),
\* or it is not a string (summarizer, extractor)
Unparsable(text) == IF pipeline = "analyzer" THEN ~ JsonLoads(text).ok ELSE text.t # "str"

\* C6: no exception leaves a pipeline entry point: for every transcript and
\* every outcome of the model calls the entry point returns a mapping; when
\* nothing could be called, when a fallback call failed or when a returned
\* text could not be parsed, the mapping has `error`, or `raw_text` in the
\* part the failing stage produced.
C6_NoEscape ==
    /\ result.kind # "raise"
    /\ PipelineDone =>
          /\ result.kind = "return"
          /\ DOMAIN result.value # {}
          /\ DOMAIN result.value \subseteq ReportKeys
          /\ calls = <<>> => IsErrorReport
          /\ \A i \in DOMAIN calls :
                (calls[i].slot = "fallback" /\ ~ calls[i].ok) => IsErrorReport
          /\ \A i \in DOMAIN calls :
                (calls[i].ok /\ Unparsable(calls[i].text)) =>
                    (IsErrorReport \/ "raw_text" \in StageKeys(calls[i].stage))

\* the extractor's parser raised on the response of a successful call
C6_Witness ==
    /\ PipelineDone /\ pipeline = "extractor"
    /\ calls # <<>>
    /\ calls[Len(calls)].ok /\ calls[Len(calls)].text = PyNone
    /\ IsErrorReport

(* ================================ C7 =================================== *)
\* C7 as stated: every report a pipeline returns has a `timestamp` field.
C7_AsStated == PipelineDone => "timestamp" \in DOMAIN result.value

\* C7 (amended): every report without `error` carries a timestamp taken
\* before the return: the key `timestamp` in the summarizer and the
\* extractor, `meta.timestamp` in the analyzer; an `error` report holds
\* nothing but `error`.
C7_Timestamp ==
    (PipelineDone /\ result.kind = "return") =>
        IF IsErrorReport THEN DOMAIN result.value = {"error"}
        ELSE IF pipeline = "analyzer"
             THEN /\ "meta" \in DOMAIN result.value
                  /\ result.value.meta.timestamp \in 0..now
             ELSE /\ "timestamp" \in DOMAIN result.value
                  /\ result.value.timestamp \in 0..now

\* a degraded summary, stamped after the clock had moved
C7_Witness ==
    /\ PipelineDone /\ pipeline = "summarizer"
    /\ "raw_text" \in DOMAIN result.value
    /\ "timestamp" \in DOMAIN result.value
    /\ result.value.timestamp = 1

(* ================================ C8 =================================== *)

Alternates(turns) == \A i \in 1..(Len(turns) - 1) : turns[i].role # turns[i + 1].role

\* C8: adjacent turns of the transcript have different roles, while it is
\* built and when it is returned, complete or truncated by an abort.
C8_Alternation ==
    pipeline = "engine" =>
        /\ Alternates(transcript)
        /\ result.kind = "return" => Alternates(result.value)
        /\ pc = "done" => Alternates(conversation_history)

\* a run of two exchanges aborted after three half-turns
C8_Witness ==
    /\ pipeline = "engine" /\ pc = "done"
    /\ aborted
    /\ Len(conversation_history) = 3

(* ================================ C9 =================================== *)

\* a generation failed on the primary and on the fallback model
GenerationFailure == \E i \in DOMAIN calls : calls[i].slot = "fallback" /\ ~ calls[i].ok

\* the half-turns completed: the seed and one per call that returned
HalfTurnsCompleted == 1 + Cardinality({i \in DOMAIN calls : calls[i].ok})

\* C9: the returned transcript has at most 2 * num_turns turns: exactly
\* 2 * num_turns without a GenerationFailure, otherwise as many as half-turns
\* were completed before the failure.
C9_LengthBound ==
    (pipeline = "engine" /\ pc \in {"finished", "done"}) =>
        /\ result.kind = "return"
        /\ Len(result.value) <= 2 * num_turns
        /\ ~ GenerationFailure => Len(result.value) = 2 * num_turns
        /\ GenerationFailure =>
              /\ Len(result.value) = HalfTurnsCompleted
              /\ Len(result.value) = completed

\* a run of two exchanges that failed in its third half-turn
C9_Witness ==
    /\ pipeline = "engine" /\ pc = "finished"
    /\ num_turns = 2
    /\ GenerationFailure
    /\ Len(result.value) = 2

(* ================================ C10 ================================== *)

NonDecreasing(turns) == \A i \in 1..(Len(turns) - 1) : turns[i].timestamp <= turns[i + 1].timestamp

\* C10: in a run whose model calls all succeed the transcript starts with the
\* seed utterance as a human turn, every turn has non-empty content, the
\* timestamps do not decrease, and for num_turns = 2 the roles are
\* human, assistant, human, assistant.
C10_AllCallsSucceed ==
    (pipeline = "engine" /\ pc \in {"finished", "done"} /\ \A i \in DOMAIN calls : calls[i].ok) =>
        /\ result.value[1].role = "human"
        /\ result.value[1].content = initial_prompt
        /\ \A i \in DOMAIN result.value : result.value[i].content # ""
        /\ NonDecreasing(result.value)
        /\ num_turns = 2 =>
              [i \in DOMAIN result.value |-> result.value[i].role] =
                  <<"human", "assistant", "human", "assistant">>

(* ================================ C11 ================================== *)

\* the step in which the fallback call of a half-turn fails
FallbackFails ==
    /\ pipeline = "engine" /\ pc = "generating" /\ slot = "fallback"
    /\ Len(calls') = Len(calls) + 1
    /\ ~ calls'[Len(calls')].ok

\* C11: when the model call of a half-turn fails on the primary and on the
\* fallback model, the engine stops and returns (raises nothing) exactly the
\* transcript it had before the failed half-turn, every turn unchanged, and
\* no model call follows in that run.
C11_AbortPolicy ==
    [][ /\ FallbackFails =>
              /\ pc' = "finished"
              /\ result'.kind = "return"
              /\ result'.value = transcript
              /\ transcript' = transcript
        /\ (pipeline = "engine" /\ aborted /\ pipeline' = "engine") =>
              /\ calls' = calls
              /\ result' = result
              /\ pc' # "generating" ]_vars

\* a run of two exchanges whose second half-turn was generated and whose
\* third failed on both models: the seed and one reply are returned
C11_Witness ==
    /\ pipeline = "engine" /\ pc = "finished" /\ aborted
    /\ Len(calls) = 3
    /\ calls[1].ok /\ ~ calls[2].ok /\ ~ calls[3].ok
    /\ result = Return(transcript)
    /\ Len(transcript) = 2

(* ================================ C12 ================================== *)

\* C12: the transcript written by the conversation page and read back with
\* json.load is the metadata record at element 0 followed by the turns of the
\* run in their order, each with the role, content and timestamp it had.
C12_RoundTrip ==
    (pipeline = "engine" /\ pc = "done" /\ conversation # <<>>) =>
        /\ Len(conversation) = Len(conversation_history) + 1
        /\ DOMAIN conversation[1] = {"meta"}
        /\ conversation[1].meta.num_turns = num_turns
        /\ \A i \in DOMAIN conversation_history :
              /\ DOMAIN conversation[i + 1] = {"role", "content", "timestamp"}
              /\ conversation[i + 1].role = conversation_history[i].role
              /\ conversation[i + 1].content = conversation_history[i].content
              /\ conversation[i + 1].timestamp = conversation_history[i].timestamp

\* a complete run of one exchange was saved and read back: three entries,
\* the second turn stamped later than the seed
C12_Witness ==
    /\ pipeline = "engine" /\ pc = "done"
    /\ Len(conversation) = 3
    /\ "meta" \in DOMAIN conversation[1]
    /\ conversation[3].role = "assistant"
    /\ conversation[2].timestamp < conversation[3].timestamp

(* ================================ C13 ================================== *)

\* the transcript is a stored one: a metadata record and then turns
StoredTranscript ==
    /\ Len(conversation) >= 2
    /\ "role" \notin DOMAIN conversation[1]
    /\ \A i \in 2..Len(conversation) :
          {"role", "content", "timestamp"} \subseteq DOMAIN conversation[i]

\* the conversation text the entry point rendered into its first prompt
RenderedText ==
    LET p == IF calls # <<>> THEN calls[1].prompt ELSE prompt
    IN  IF pipeline = "summarizer" /\ p # NoPrompt THEN p.body[1] ELSE p.body

\* C13: handed a stored transcript (metadata record first, then turns), each
\* pipeline makes its model call, the conversation text it renders has one
\* block per turn, in order, with the turn's role label and content, and an
\* `error` report is returned only after a model call was made.
C13_MetadataIsNoTurn ==
    (pipeline \in Pipelines /\ ~ CredentialMissing(google_api_key) /\ StoredTranscript) =>
        /\ pc = "call" \/ calls # <<>>
        /\ Len(RenderedText) = Len(conversation) - 1
        /\ \A i \in DOMAIN RenderedText :
              /\ RenderedText[i][1] = RoleLabel(conversation[i + 1].role)
              /\ RenderedText[i][Len(RenderedText[i])] = conversation[i + 1].content
        /\ (pc = "done" /\ IsErrorReport) => calls # <<>>

(* ================================ C14 ================================== *)

Sections == {"profile", "context", "next"}

\* the line, lower-cased, contains `profile:`, `context:` or `next:`, or it
\* contains `1.`, `2.` or `3.` together with the word of that number
IsSectionHeader(line) ==
    LET low == LowerLine(line) IN
    \/ In("profile:", low) \/ In("context:", low) \/ In("next:", low)
    \/ In("1.", low) /\ In("profile", low)
    \/ In("2.", low) /\ In("context", low)
    \/ In("3.", low) /\ In("next", low)

\* the parser took the line it just read for a header: a section is active
\* and its content starts afresh
TakenAsHeader(line) ==
    /\ line # <<>>
    /\ parse_state'.current_section # ""
    /\ parse_state'.section_content = <<>>

\* the lines read so far
LinesRead == SubSeq(extraction_text, 1, lines_read)

\* the text from its first header on (empty when it has no header)
RECURSIVE FromFirstHeader(_)
FromFirstHeader(lines) ==
    IF lines = <<>> \/ IsSectionHeader(Strip(Head(lines))) THEN lines
    ELSE FromFirstHeader(Tail(lines))

\* C14: the profile line parser takes a line for a section header exactly
\* when the line is one by the rule above; as long as no header was read the
\* lines read leave no trace, and the result is the one of the text without
\* the lines before its first header.
C14_HeaderRecognition ==
    /\ [][ lines_read' = lines_read + 1 =>
             (TakenAsHeader(Strip(extraction_text[lines_read'])) <=>
                 IsSectionHeader(Strip(extraction_text[lines_read']))) ]_vars
    /\ []( (\A i \in DOMAIN LinesRead : ~ IsSectionHeader(Strip(LinesRead[i]))) =>
              parse_state = StartOfParse )
    /\ []( parse_pc = "returned" =>
              extraction_result =
                  parse_extraction_result(PyStr(FromFirstHeader(extraction_text))).value )

\* a plain line, then a numbered header, then a line: the result holds the
\* last line only
C14_Witness ==
    /\ parse_pc = "returned"
    /\ extraction_text = << <<"b">>, <<"1.", "profile">>, <<"- ", "a">> >>
    /\ extraction_result = [profile |-> << <<"- ", "a">> >>, context |-> <<>>, next |-> <<>>]

(* ================================ C15 ================================== *)

\* the section a header line names
SectionOfHeader(line) ==
    LET low == LowerLine(line) IN
    IF In("profile:", low) \/ (In("1.", low) /\ In("profile", low)) THEN "profile"
    ELSE IF In("context:", low) \/ (In("2.", low) /\ In("context", low)) THEN "context"
    ELSE IF In("next:", low) \/ (In("3.", low) /\ In("next", low)) THEN "next"
    ELSE ""

\* where the header of a section stands in the text
HeaderPositions(s) ==
    {i \in DOMAIN extraction_text : SectionOfHeader(Strip(extraction_text[i])) = s}

EachHeaderAtMostOnce == \A s \in Sections : Cardinality(HeaderPositions(s)) <= 1

\* the non-empty lines between position h and the next header or the end
RECURSIVE LinesUpToNextHeader(_)
LinesUpToNextHeader(h) ==
    IF h + 1 > Len(extraction_text) \/ IsSectionHeader(Strip(extraction_text[h + 1]))
    THEN <<>>
    ELSE (IF Strip(extraction_text[h + 1]) = <<>> THEN <<>>
          ELSE << Strip(extraction_text[h + 1]) >>) \o LinesUpToNextHeader(h + 1)

\* the lines that follow the header of section s
FollowingLines(s) ==
    IF HeaderPositions(s) = {} THEN <<>>
    ELSE LinesUpToNextHeader(CHOOSE h \in HeaderPositions(s) : TRUE)

\* C15: for a text in which every section header stands at most once, in any
\* order, each section of the result holds the non-empty lines that follow
\* its header up to the next header or the end of the text.
C15_Accumulation ==
    (parse_pc = "returned" /\ EachHeaderAtMostOnce) =>
        \A s \in Sections : extraction_result[s] = FollowingLines(s)

(* ================================ C16 ================================== *)

\* the step reads a content line: not empty, no header, a section is active
ContentLineRead ==
    /\ lines_read' = lines_read + 1
    /\ Strip(extraction_text[lines_read']) # <<>>
    /\ ~ IsSectionHeader(Strip(extraction_text[lines_read']))
    /\ parse_state.current_section # ""

\* C16 as stated: a content line that begins with "- " is stored without
\* that marker.
C16_AsStated ==
    [][ (ContentLineRead /\ StartsWith(Strip(extraction_text[lines_read']), "- ")) =>
           parse_state'.section_content =
               Append(parse_state.section_content, Tail(Strip(extraction_text[lines_read']))) ]_vars

\* C16: the profile line parser stores every content line as it stands
\* after the removal of surrounding whitespace; a leading "- " is kept, in
\* the section being accumulated and in the result returned.
C16_BulletsKept ==
    /\ [][ ContentLineRead =>
             parse_state'.section_content =
                 Append(parse_state.section_content, Strip(extraction_text[lines_read'])) ]_vars
    /\ []( parse_pc = "returned" =>
              \A s \in Sections : \A i \in DOMAIN extraction_result[s] :
                  \E j \in DOMAIN extraction_text :
                      extraction_result[s][i] = Strip(extraction_text[j]) )

\* a bullet line under the context header is returned with its marker
C16_Witness ==
    /\ parse_pc = "returned"
    /\ extraction_text = << <<"Context:">>, <<"- ", "a">> >>
    /\ extraction_result.context = << <<"- ", "a">> >>

(* ================================ C17 ================================== *)

\* C17: two runs that save their transcripts write to different file names.
C17_NoCollision ==
    \A w1, w2 \in file_writes : w1.run # w2.run => w1.name # w2.name

(* ================================ C18 ================================== *)

\* the profile page ran its extraction and everything that follows it
ProfilePageRendered == pipeline = "extractor" /\ html_content # NoHtml

\* C18: generate_user_profile_html, whatever the profile it is given,
\* writes the HTML file and returns its path, so that the JSON file and the
\* HTML file of the success message exist when the page opens them again.
C18_HtmlSaved ==
    ProfilePageRendered =>
        /\ html_content.kind = "path"
        /\ \E f \in user_profiles : f.suffix = ".html" /\ html_content.file = f
        /\ \E f \in user_profiles : f.suffix = ".json"
        /\ page_error = ""

(* ================================ C19 ================================== *)

\* a descriptor and every descriptor nested in it: the type is a SchemaType,
\* an object has properties and requires exactly their keys, an array has
\* items
RECURSIVE WellFormed(_)
WellFormed(d) ==
    /\ "type" \in DOMAIN d
    /\ d.type \in SchemaType
    /\ d.type = "object" =>
          /\ {"properties", "required"} \subseteq DOMAIN d
          /\ {d.required[i] : i \in DOMAIN d.required} = DOMAIN d.properties
          /\ \A k \in DOMAIN d.properties : WellFormed(d.properties[k])
    /\ d.type = "array" =>
          /\ "items" \in DOMAIN d
          /\ WellFormed(d.items)

\* C19: every schema a model call carries (the one of create_analysis_schema
\* in stage 1, the one of create_final_output_schema in stage 2) is well
\* formed at every nesting level.
C19_SchemaWellFormed ==
    \A i \in DOMAIN calls :
        calls[i].schema # "<none>" => WellFormed(response_schema(calls[i].schema))

\* the analyzer sent both schemas
C19_Witness ==
    /\ pipeline = "analyzer"
    /\ \E i \in DOMAIN calls : calls[i].schema = "create_analysis_schema"
    /\ \E i \in DOMAIN calls : calls[i].schema = "create_final_output_schema"
    /\ response_schema("create_final_output_schema").properties.human_analysis.properties.strengths.items.type = "string"

(* ================================ C20 ================================== *)

\* what stage 1 makes of the text of its call c: the parsed value, or the
\* text under `raw_text`
IntermediateOf(c) ==
    IF JsonLoads(c.text).ok THEN JsonLoads(c.text).value ELSE RawText(c.text)

\* C20: a stage-2 call of the analyzer is made only after a stage-1 call
\* returned; its prompt is the final template around the serialisation of
\* the result of that stage-1 call, parsed or degraded to `raw_text`; and
\* once a stage-1 call returned, degraded or not, stage 2 is under way.
C20_StageOrdering ==
    pipeline = "analyzer" =>
        /\ \A i \in DOMAIN calls :
              calls[i].stage = 2 =>
                 \E j \in 1..(i - 1) :
                     /\ calls[j].stage = 1 /\ calls[j].ok
                     /\ calls[i].prompt =
                            [template |-> "final", body |-> JsonDumps(IntermediateOf(calls[j]))]
                     /\ intermediate_analysis = IntermediateOf(calls[j])
        /\ \A j \in DOMAIN calls :
              (calls[j].stage = 1 /\ calls[j].ok) =>
                 \/ pc = "call" /\ stage = 2 /\ j = Len(calls)
                 \/ \E i \in (j + 1)..Len(calls) : calls[i].stage = 2

\* stage 1 failed on the primary model and returned free text on the
\* fallback model; stage 2 was called with the degraded result in its prompt
C20_Witness ==
    /\ pipeline = "analyzer"
    /\ Len(calls) = 3
    /\ ~ calls[1].ok
    /\ calls[2].stage = 1 /\ calls[2].text = PyStr(TxtSections)
    /\ calls[3].stage = 2
    /\ calls[3].prompt.body = JsonDumps(RawText(PyStr(TxtSections)))

(* ================================ C21 ================================== *)

\* the step makes a model invocation: the call log grows by its record
Invocation == Len(calls') = Len(calls) + 1 /\ SubSeq(calls', 1, Len(calls)) = calls

\* C21: model invocations are made one at a time: a step adds at most one
\* invocation to those that have returned; a fallback invocation is made
\* only when the last invocation returned is the failed primary one of the
\* same stage; a stage-2 invocation is made only when every stage-1
\* invocation has returned, one of them with a result, and no stage-1
\* invocation follows it.
C21_Sequential ==
    [][ /\ (pipeline' = pipeline /\ calls' # calls) => Invocation
        /\ Invocation =>
              LET c == calls'[Len(calls')] IN
              /\ c.slot = "fallback" =>
                    /\ calls # <<>>
                    /\ calls[Len(calls)].slot = "primary"
                    /\ ~ calls[Len(calls)].ok
                    /\ calls[Len(calls)].stage = c.stage
              /\ c.slot = "primary" =>
                    (calls = <<>> \/ calls[Len(calls)].ok)
              /\ (pipeline = "analyzer" /\ c.stage = 2) =>
                    /\ \E i \in DOMAIN calls : calls[i].stage = 1 /\ calls[i].ok
                    /\ \A i \in DOMAIN calls : calls[i].stage = 1 => calls[i].ok \/ i < Len(calls)
              /\ \A i \in DOMAIN calls : calls[i].stage <= c.stage ]_vars

\* the analyzer made its four invocations one after the other and returned
C21_Witness ==
    /\ PipelineDone /\ pipeline = "analyzer"
    /\ Len(calls) = 4
    /\ calls[4].ok /\ calls[4].slot = "fallback" /\ calls[4].stage = 2
    /\ ~ IsErrorReport

\* ---------------------------------------------------------------------------
\* C22: per-role streaming buffers.  A chunk streamed for role r is appended
\* at the end of role r's buffer, in arrival order, the other role's buffer
\* is unchanged by it, and both buffers are empty when a streaming run starts.
ChunkArrives == chunks_sent' = chunks_sent + 1

StreamingRunStarts == pc = "idle" /\ pipeline' = "engine" /\ stream'

C22_PerRoleBuffers ==
    [][ /\ ChunkArrives =>
              LET r == current_role
                  old == streaming_content[r]
                  new == streaming_content'[r] IN
              /\ Len(new) = Len(old) + 1
              /\ SubSeq(new, 1, Len(old)) = old
              /\ new[Len(new)].n = chunks_sent + 1
              /\ new[Len(new)].turn = stage
              /\ streaming_content'[OtherRole(r)] = streaming_content[OtherRole(r)]
        /\ StreamingRunStarts =>
              \A r \in Roles : streaming_content'[r] = <<>> ]_vars

C22_Witness ==
    /\ pipeline = "engine" /\ stream
    /\ streaming_content["assistant"] # <<>>
    /\ streaming_content["human"] # <<>>
    /\ streaming_content["assistant"][1].turn # streaming_content["human"][1].turn

\* ---------------------------------------------------------------------------
\* C23: buffer reset on success.  When a half-turn of role r has completed and
\* its Turn is appended, role r's buffer is cleared: at the start of role r's
\* next generation its buffer is empty, and during a generation the buffer of
\* the generating role holds only chunks of the turn being generated.
GenerationStarts == pc = "generating" /\ slot = "primary" /\ chunks_sent = 0

HistoryOf(c) == [j \in 1..c.stage |-> <<RoleLabel(transcript[j].role), transcript[j].content>>]

C24_FullHistory ==
    pipeline = "engine" =>
        \A i \in DOMAIN calls :
            LET c == calls[i] IN
            /\ c.stage <= Len(transcript)
            /\ c.prompt.body = HistoryOf(c)
            /\ c.prompt.template = OtherRole(transcript[c.stage].role)
            /\ c.ok => transcript[c.stage + 1].role = c.prompt.template

C24_Witness ==
    /\ pipeline = "engine" /\ pc = "finished" /\ ~ aborted
    /\ Len(transcript) = 4
    /\ calls # <<>>
    /\ calls[Len(calls)].stage = 3
    /\ Len(calls[Len(calls)].prompt.body) = 3
    /\ \E i \in DOMAIN calls : calls[i].slot = "fallback" /\ calls[i].ok

\* ---------------------------------------------------------------------------
\* C25: summarizer parse of the prompted format.  When the model's response
\* has the format the summarizer's prompt asks for (`profile: <text>`,
\* `episode: <text>`, `next: <text>`, each text on the line of its label), the
\* returned summary's profile, episode and next each contain the text of
\* their label: no labelled section is dropped.
SummaryLabels == {"profile:", "episode:", "next:"}

SummaryKey(label) ==
    CASE label = "profile:" -> "profile"
      [] label = "episode:" -> "episode"
      [] label = "next:" -> "next"

InPromptedFormat(text) ==
    /\ \A i \in DOMAIN text :
           text[i] # <<>> => Len(text[i]) >= 2 /\ Head(text[i]) \in SummaryLabels
    /\ \A l \in SummaryLabels :
           Cardinality({i \in DOMAIN text : text[i] # <<>> /\ Head(text[i]) = l}) = 1

SummaryHolds(key, txt) ==
    /\ key \in DOMAIN result.value
    /\ IF key = "profile"
       THEN result.value[key] = txt
       ELSE \E j \in DOMAIN result.value[key] : result.value[key][j] = txt

C25_PromptedFormatParsed ==
    (/\ PipelineDone /\ pipeline = "summarizer"
     /\ calls # <<>>
     /\ ReturnedText(calls[Len(calls)])
     /\ InPromptedFormat(calls[Len(calls)].text.v)) =>
        LET text == calls[Len(calls)].text.v IN
        \A i \in DOMAIN text :
            text[i] # <<>> => SummaryHolds(SummaryKey(Head(text[i])), Tail(text[i]))

\* ---------------------------------------------------------------------------
\* C26: in every non-error report of analyze_conversation, intermediate_analysis
\* and final_analysis are both mappings, whatever text the model returned, so
\* generate_report renders the report without raising.
C26_ReportHoldsMappings ==
    (PipelineDone /\ pipeline = "analyzer" /\ ~ IsErrorReport) =>
        /\ result.value.intermediate_analysis.t = "dict"
        /\ result.value.final_analysis.t = "dict"
        /\ generate_report(result.value).kind = "return"

\* ---------------------------------------------------------------------------
\* C27: after any sequence of conversation runs and analyses, every file the
\* analysis page offers for analysis is a saved conversation transcript; the
\* analysis_*.json reports the page wrote itself are never offered.
C27_OnlyTranscriptsOffered ==
    \A f \in conversation_files : f.prefix = "conversation_"

\* ---------------------------------------------------------------------------
\* C28: when the analyzer's stage-2 call fails on the primary and on the
\* fallback model, analyze_conversation returns a report whose only content is
\* the error field: the stage-1 result is not returned, and no report ever
\* holds both error and final_analysis.
StageTwoFailed ==
    /\ \E i \in CallsOf(2, "primary") : ~ calls[i].ok
    /\ \E i \in CallsOf(2, "fallback") : ~ calls[i].ok

C28_ErrorOnly ==
    (PipelineDone /\ pipeline = "analyzer") =>
        /\ StageTwoFailed =>
              /\ result.kind = "return"
              /\ DOMAIN result.value = {"error"}
        /\ ~ ({"error", "final_analysis"} \subseteq DOMAIN result.value)

C28_Witness ==
    /\ PipelineDone /\ pipeline = "analyzer"
    /\ StageTwoFailed
    /\ intermediate_analysis # PyNone
    /\ IsErrorReport

\* ---------------------------------------------------------------------------
\* C29: meta.model of a non-error analyzer report names the model that
\* produced the report's final_analysis: the primary model when the primary
\* stage-2 call returned, the fallback model when the fallback call did.
ProducerOfFinalAnalysis ==
    LET i == CHOOSE i \in DOMAIN calls : calls[i].stage = 2 /\ calls[i].ok IN calls[i].model

C29_MetaModel ==
    (PipelineDone /\ pipeline = "analyzer" /\ ~ IsErrorReport) =>
        result.value.meta.model = ProducerOfFinalAnalysis

\* ---------------------------------------------------------------------------
\* a string as the parser builds it: the stripped, non-empty lines it joined
\* (the empty string when there is none)
IsJoinedText(v) == DOMAIN v = 1..Len(v) /\ \A i \in DOMAIN v : v[i] # <<>>

\* no content line follows any header of the section (none when the section
\* has no header at all)
NoContentFollows(s) == \A h \in HeaderPositions(s) : LinesUpToNextHeader(h) = <<>>

ProfileReportKeys == Sections \cup {"timestamp"}

\* C30: for every input text _parse_extraction_result returns a mapping with
\* exactly the keys profile, context and next, each holding a string, empty
\* when its header never occurs or no content line follows it; so every
\* non-error report of extract_user_profile has exactly these three keys and
\* timestamp, and never raw_text.
C30_ThreeSections ==
    /\ parse_pc = "returned" =>
          /\ DOMAIN extraction_result = Sections
          /\ \A s \in Sections :
                /\ IsJoinedText(extraction_result[s])
                /\ NoContentFollows(s) => extraction_result[s] = <<>>
          /\ DOMAIN StampedReport(extraction_result).value = ProfileReportKeys
    /\ (PipelineDone /\ pipeline = "extractor" /\ ~ IsErrorReport) =>
          /\ DOMAIN result.value = ProfileReportKeys
          /\ \A s \in Sections : IsJoinedText(result.value[s])

C30_Witness ==
    /\ parse_pc = "returned"
    /\ extraction_text = << <<"profile:">>, <<"Context:">>, <<"b">> >>
    /\ extraction_result = [profile |-> <<>>, context |-> << <<"b">> >>, next |-> <<>>]

====
